---------------------------- MODULE Spec2Model ----------------------------
(***************************************************************************)
(* Model of rs-voir: the weighted reservoir (src/src/lib.rs) and the       *)
(* ReSTIR frame update built on it (src/examples/restir.rs).               *)
(*                                                                         *)
(* f32 values are modelled as exact extended rationals <<n, d>>:           *)
(*   d > 0, gcd(|n|, d) = 1   a finite value n/d                           *)
(*   <<1, 0>>, <<-1, 0>>      +infinity, -infinity                         *)
(*   <<0, 0>>                 NaN                                          *)
(* so that a division by zero yields what IEEE-754 yields and is visible   *)
(* in the state.  Rounding to 24 bits of mantissa and signed zeros are not *)
(* modelled: every statement below is one of exact arithmetic.             *)
(* u32 values are naturals, far below 2^32 within the bounds; `x as f32`   *)
(* is exact for them.                                                      *)
(*                                                                         *)
(* In the frame update a glam::Vec2 is a pair of integers.  Positions are  *)
(* counted in half cells, so the centre of cell c is <<2c+1, 0>> and the   *)
(* sun of radius 0.5 has radius 1.  A direction is the primitive integer   *)
(* vector along the ray (normalize() divides by the gcd, the zero vector   *)
(* is Vec2::ZERO), and a distance is counted in lengths of the direction   *)
(* it goes with, so that `distance * dir` is exact.  A colour is modelled  *)
(* by its length, the only thing the reservoirs see of it.  The display    *)
(* statistics (color_accumulated, variance_accumulated,                    *)
(* smooth_avg_deviation) are not part of the model.                        *)
(***************************************************************************)
EXTENDS Integers, Sequences, FiniteSets, TLC

----------------------------------------------------------------------------
(* Bounds of the model *)

\* the largest target value / recomputed target PDF drawn as an input
MaxTarget == 2
\* source PDFs are 1 and 1/MaxPdf
MaxPdf == 2
\* uniform draws in [0,1) are k/DrawDen, k \in 0..DrawDen-1
DrawDen == 2
\* history limits and unbiased histories are drawn from 0..MaxLimit
MaxLimit == 2
\* number of operations in one behaviour
MaxSteps == 4
\* number of samples streamed when the selection law is checked
MaxLen == 3
\* number of steps of the frame update in one behaviour
MaxUpdateSteps == 38

----------------------------------------------------------------------------
(* f32 arithmetic *)

Abs(x) == IF x < 0 THEN -x ELSE x

Sgn(x) == IF x < 0 THEN -1 ELSE IF x > 0 THEN 1 ELSE 0

RECURSIVE Gcd(_, _)
Gcd(a, b) == IF b = 0 THEN a ELSE Gcd(b, a % b)

\* the f32 with value n/d, in normal form
Norm(n, d) ==
    IF d = 0 THEN <<Sgn(n), 0>>
    ELSE LET s == Sgn(d)
             g == Gcd(Abs(n), Abs(d))
         IN  <<(s * n) \div g, Abs(d) \div g>>

Rat(n, d) == Norm(n, d)

Zero == <<0, 1>>
One == <<1, 1>>
NaN == <<0, 0>>
PosInf == <<1, 0>>

IsNaN(a) == a[1] = 0 /\ a[2] = 0
IsFinite(a) == a[2] > 0

\* `h as f32`
FromU32(h) == <<h, 1>>

FAdd(a, b) ==
    IF a[2] = 0 /\ b[2] = 0
    THEN (IF a[1] = b[1] THEN a ELSE NaN)
    ELSE Norm(a[1] * b[2] + b[1] * a[2], a[2] * b[2])

FMul(a, b) == Norm(a[1] * b[1], a[2] * b[2])

\* x/0 is +-infinity, 0/0 and inf/inf are NaN (the zero divisor counts as +0)
FDiv(a, b) ==
    LET s == IF b[1] < 0 THEN -1 ELSE 1
    IN  Norm(a[1] * b[2] * s, a[2] * Abs(b[1]))

\* a < b; false when either side is NaN
FLt(a, b) ==
    IF IsNaN(a) \/ IsNaN(b) THEN FALSE
    ELSE IF a[2] = 0 /\ b[2] = 0 THEN a[1] < b[1]
    ELSE a[1] * b[2] < b[1] * a[2]

FGt(a, b) == FLt(b, a)

\* a - b
FSub(a, b) == FAdd(a, <<-b[1], b[2]>>)

\* a != b; true when either side is NaN
FNe(a, b) == IsNaN(a) \/ IsNaN(b) \/ a # b

\* u32::min
Min(a, b) == IF a < b THEN a ELSE b

----------------------------------------------------------------------------
(* The two types and their pure methods *)

\* ReservoirBuilder::default()
DefaultBuilder == [history |-> 0, weight_sum |-> Zero, selected_target_pdf |-> Zero]

\* Reservoir::default()
DefaultReservoir == [history |-> 0, contribution_weight |-> Zero]

\* faulty variant: takes the PDF itself for the weight
from_sample_inverted(source_pdf) ==
    [history |-> 1, contribution_weight |-> source_pdf]

from_sample(source_pdf) ==
    [history |-> 1, contribution_weight |-> FDiv(One, source_pdf)]

has_weight(self) == FNe(self.contribution_weight, Zero)

\* faulty variant: the copy keeps the whole history
with_max_history_unclamped(self, max_history) == self

\* faulty variant: clamps with max instead of min
with_max_history_max(self, max_history) ==
    [history |-> IF self.history > max_history THEN self.history ELSE max_history,
     contribution_weight |-> self.contribution_weight]

with_max_history(self, max_history) ==
    [history |-> Min(self.history, max_history),
     contribution_weight |-> self.contribution_weight]

\* faulty variant: forgets the history factor of the weight sum
to_builder_no_history(self, selected_target_pdf) ==
    [history |-> self.history,
     weight_sum |-> FMul(self.contribution_weight, selected_target_pdf),
     selected_target_pdf |-> selected_target_pdf]

to_builder(self, selected_target_pdf) ==
    [history |-> self.history,
     weight_sum |-> FMul(FMul(self.contribution_weight, FromU32(self.history)),
                         selected_target_pdf),
     selected_target_pdf |-> selected_target_pdf]

\* faulty variant: stores the history it was given for the weighting
finish_with_history_stores_arg(self, unbiased_history) ==
    LET denom == FMul(FromU32(unbiased_history), self.selected_target_pdf)
    IN  [history |-> unbiased_history,
         contribution_weight |->
             IF FGt(denom, Zero) THEN FDiv(self.weight_sum, denom) ELSE Zero]

\* faulty variant: clamps the stored history to the history it was given
finish_with_history_clamped(self, unbiased_history) ==
    LET denom == FMul(FromU32(unbiased_history), self.selected_target_pdf)
    IN  [history |-> Min(self.history, unbiased_history),
         contribution_weight |->
             IF FGt(denom, Zero) THEN FDiv(self.weight_sum, denom) ELSE Zero]

\* faulty variant: divides without looking at the denominator
finish_with_history_unguarded(self, unbiased_history) ==
    [history |-> self.history,
     contribution_weight |->
         FDiv(self.weight_sum,
              FMul(FromU32(unbiased_history), self.selected_target_pdf))]

\* ReservoirBuilder::finish_with_history: the produced reservoir
finish_with_history(self, unbiased_history) ==
    LET denom == FMul(FromU32(unbiased_history), self.selected_target_pdf)
    IN  [history |-> self.history,
         contribution_weight |->
             IF FGt(denom, Zero) THEN FDiv(self.weight_sum, denom) ELSE Zero]

\* faulty variant: weights with a history of 1
finish_unit_history(self) == finish_with_history(self, 1)

\* ReservoirBuilder::finish
finish(self) == finish_with_history(self, self.history)

\* faulty variant: clears the selection but keeps the accumulated weight
invalidate_keep_sum(self) == [self EXCEPT !.selected_target_pdf = Zero]

\* ReservoirBuilder::invalidate: the builder afterwards
invalidate(self) ==
    [self EXCEPT !.selected_target_pdf = Zero, !.weight_sum = Zero]

\* faulty variant: the assertion is compiled out
clamp_history_unchecked(history) == TRUE

\* assert_ne!(history, 0) of clamp_history
clamp_history_asserts(history) == history # 0

\* faulty variant: the history is left as it is
clamp_history_skipped(self, history) == self

\* faulty variant: rescales to the limit whatever the history is
clamp_history_always(self, history) ==
    LET avg == FDiv(self.weight_sum, FromU32(self.history))
    IN  [self EXCEPT !.history = history,
                     !.weight_sum = FMul(avg, FromU32(history))]

\* faulty variant: lowers the history without rescaling the weight sum
clamp_history_no_rescale(self, history) ==
    IF self.history > history THEN [self EXCEPT !.history = history] ELSE self

\* ReservoirBuilder::clamp_history, once the assertion has passed
clamp_history(self, history) ==
    IF self.history > history
    THEN LET avg == FDiv(self.weight_sum, FromU32(self.history))
         IN  [self EXCEPT !.history = history,
                          !.weight_sum = FMul(avg, FromU32(history))]
    ELSE self

\* faulty variant: the draw is compared with <=
accepts_or_equal(random, weight_sum, weight) ==
    ~FGt(FMul(random, weight_sum), weight)

\* faulty variant: compares the draw with the weight, not with its share of the sum
accepts_unscaled(random, weight_sum, weight) == FLt(random, weight)

\* the acceptance test of stream and merge: random * weight_sum < weight
accepts(random, weight_sum, weight) == FLt(FMul(random, weight_sum), weight)

\* faulty variant: tests the draw against the weight sum before the sample is added
stream_stale_sum(self, source_pdf, target_value, random) ==
    LET weight == FDiv(target_value, source_pdf)
        taken == accepts(random, self.weight_sum, weight)
    IN  [self |-> [history |-> self.history + 1,
                   weight_sum |-> FAdd(self.weight_sum, weight),
                   selected_target_pdf |->
                       IF taken THEN target_value ELSE self.selected_target_pdf],
         ret |-> taken]

\* faulty variant: weighs the sample by target_value * source_pdf
stream_times_pdf(self, source_pdf, target_value, random) ==
    LET weight == FMul(target_value, source_pdf)
        weight_sum == FAdd(self.weight_sum, weight)
        taken == accepts(random, weight_sum, weight)
    IN  [self |-> [history |-> self.history + 1,
                   weight_sum |-> weight_sum,
                   selected_target_pdf |->
                       IF taken THEN target_value ELSE self.selected_target_pdf],
         ret |-> taken]

\* ReservoirBuilder::stream with the uniform draw `random`: the builder
\* afterwards and the returned flag (the `if true` branch; the else branch
\* is never taken)
stream(self, source_pdf, target_value, random) ==
    LET weight == FDiv(target_value, source_pdf)
        weight_sum == FAdd(self.weight_sum, weight)
        taken == accepts(random, weight_sum, weight)
    IN  [self |-> [history |-> self.history + 1,
                   weight_sum |-> weight_sum,
                   selected_target_pdf |->
                       IF taken THEN target_value ELSE self.selected_target_pdf],
         ret |-> taken]

\* ReservoirBuilder::add_empty_sample
add_empty_sample(self) == [self EXCEPT !.history = self.history + 1]

\* faulty variant: the selection is made but not reported
merge_unreported(self, other_, random) ==
    LET weight_sum == FAdd(self.weight_sum, other_.weight_sum)
        taken == accepts(random, weight_sum, other_.weight_sum)
    IN  [self |-> [history |-> self.history + other_.history,
                   weight_sum |-> weight_sum,
                   selected_target_pdf |->
                       IF taken THEN other_.selected_target_pdf
                       ELSE self.selected_target_pdf],
         ret |-> FALSE]

\* faulty variant: replaces the history by the other's
merge_assign_history(self, other_, random) ==
    LET weight_sum == FAdd(self.weight_sum, other_.weight_sum)
        taken == accepts(random, weight_sum, other_.weight_sum)
    IN  [self |-> [history |-> other_.history,
                   weight_sum |-> weight_sum,
                   selected_target_pdf |->
                       IF taken THEN other_.selected_target_pdf
                       ELSE self.selected_target_pdf],
         ret |-> taken]

\* faulty variant: takes over the other's weight but not its history
merge_no_history(self, other_, random) ==
    LET weight_sum == FAdd(self.weight_sum, other_.weight_sum)
        taken == accepts(random, weight_sum, other_.weight_sum)
    IN  [self |-> [history |-> self.history,
                   weight_sum |-> weight_sum,
                   selected_target_pdf |->
                       IF taken THEN other_.selected_target_pdf
                       ELSE self.selected_target_pdf],
         ret |-> taken]

\* ReservoirBuilder::merge with the uniform draw `random`
merge(self, other_, random) ==
    LET weight_sum == FAdd(self.weight_sum, other_.weight_sum)
        taken == accepts(random, weight_sum, other_.weight_sum)
    IN  [self |-> [history |-> self.history + other_.history,
                   weight_sum |-> weight_sum,
                   selected_target_pdf |->
                       IF taken THEN other_.selected_target_pdf
                       ELSE self.selected_target_pdf],
         ret |-> taken]

\* ReservoirBuilder::stream, the else branch: the sample goes through a
\* one-sample reservoir that is merged
stream_via_merge(self, source_pdf, target_value, random) ==
    merge(self, to_builder(from_sample(source_pdf), target_value), random)

\* faulty variant: assigns the other's history instead of adding it
merge_history_assign(self, other_) == [self EXCEPT !.history = other_.history]

\* ReservoirBuilder::merge_history
merge_history(self, other_) ==
    [self EXCEPT !.history = self.history + other_.history]

----------------------------------------------------------------------------
(* Inputs *)

\* source PDFs: positive
SourcePdfs == {One, Rat(1, MaxPdf)}

\* target values and recomputed target PDFs: non-negative
TargetValues == {Rat(n, 1) : n \in 0..MaxTarget}

\* what random.gen::<f32>() can return: values of [0,1)
Draws == {Rat(k, DrawDen) : k \in 0..(DrawDen - 1)}

\* history arguments
Limits == 0..MaxLimit

----------------------------------------------------------------------------
(* The scene of the example: src/examples/restir.rs *)

\* glam::Vec2
ZERO == <<0, 0>>
Dot(a, b) == a[1] * b[1] + a[2] * b[2]
VAdd(a, b) == <<a[1] + b[1], a[2] + b[2]>>
VSub(a, b) == <<a[1] - b[1], a[2] - b[2]>>
VScale(k, a) == <<k * a[1], k * a[2]>>

\* Vec2::normalize: the direction of a, as a primitive integer vector
normalize(a) ==
    IF a = ZERO THEN ZERO
    ELSE LET g == Gcd(Abs(a[1]), Abs(a[2]))
         IN  <<a[1] \div g, a[2] \div g>>

\* Option::None of a distance
None == <<>>

DefaultSampleInfo == [dir |-> ZERO, distance |-> None]

DefaultLightInfo == [color |-> Zero, distance |-> None]

DefaultPixel ==
    [reservoir |-> DefaultReservoir,
     selected_sample |-> DefaultSampleInfo,
     color |-> Zero]

\* the WorldConfig of main, scaled down to three cells: the sun stands over
\* cell 0, the occluder hangs over the right end of the surface
World ==
    [surface_length |-> 3,
     sun_position |-> <<0, 3>>,
     sun_color |-> <<2, 1>>,
     sky_color |-> <<1, 1>>,
     occluder_y |-> 1,
     occluder_x |-> [start |-> 2, end |-> 3]]

Cells == 0..(World.surface_length - 1)

\* glam::vec2(cell_index as f32 + 0.5, 0.0), in half cells
surface_pos(index) == <<2 * index + 1, 0>>

\* LightInfo::target_value
light_target_value(linfo) == linfo.color

\* SampleInfo::shift_map; self.distance = n/d lengths of self.dir, so
\* src_origin + distance * dir - dst_origin is along
\* d * (src_origin - dst_origin) + n * dir
shift_map(self, src_origin, dst_origin) ==
    IF self.distance = None THEN self.dir
    ELSE normalize(VAdd(VScale(self.distance[2], VSub(src_origin, dst_origin)),
                        VScale(self.distance[1], self.dir)))

\* WorldConfig::get_incoming_light.  With u = dir/|dir|:
\*   sun_distance = diff.u, |leftover|^2 = |diff|^2 - (diff.dir)^2/|dir|^2,
\* compared with the squared radius, 1 in half cells.
get_incoming_light(self, origin, dir) ==
    LET sun_pos == <<2 * self.sun_position[1] + 1, 2 * self.sun_position[2] + 1>>
        diff == VSub(sun_pos, origin)
        len2 == Dot(dir, dir)
        along == Dot(diff, dir)
    IN  IF Dot(diff, diff) * len2 - along * along < len2
        THEN [color |-> self.sun_color, distance |-> Rat(along, len2)]
        ELSE [color |-> self.sky_color, distance |-> None]

\* WorldConfig::check_visibility.  The ray crosses the height of the
\* occluder, 2 * occluder_y + 1 half cells, at
\*   x = origin.x + dir.x * (2 * occluder_y + 1 - origin.y) / dir.y
check_visibility(self, origin, dir) ==
    IF dir[2] <= 0 THEN FALSE
    ELSE IF origin[2] > 2 * self.occluder_y THEN TRUE
    ELSE LET x_times_y == origin[1] * dir[2]
                          + dir[1] * (2 * self.occluder_y + 1 - origin[2])
         IN  \/ x_times_y < 2 * self.occluder_x.start * dir[2]
             \/ x_times_y > 2 * self.occluder_x.end * dir[2]

\* the source PDF of the initial samples, 1.0 / PI: an exact stand-in
\* (every weight of the pipeline scales with it, no comparison depends on it)
source_pdf_hemisphere == <<1, 3>>

\* directions gen_range(0.0..=PI) can give: straight up, up and to the
\* left, up and to the right
Dirs == {<<0, 1>>, <<-2, 7>>, <<1, 1>>}

\* the RestirConfig values explored: main's (Precise, unbiased) with its
\* limits scaled down, and one for every other branch of update
RestirConfigs ==
    {[convergence |-> [kind |-> "Precise", unbias |-> TRUE],
      initial_samples |-> 2, max_initial_history |-> 1,
      max_temporal_history |-> 2, max_spatial_history |-> 1],
     [convergence |-> [kind |-> "Precise", unbias |-> FALSE],
      initial_samples |-> 2, max_initial_history |-> 2,
      max_temporal_history |-> 1, max_spatial_history |-> 1],
     [convergence |-> [kind |-> "LeanAndMean", initial_visibility |-> TRUE],
      initial_samples |-> 1, max_initial_history |-> 1,
      max_temporal_history |-> 1, max_spatial_history |-> 0],
     [convergence |-> [kind |-> "LeanAndMean", initial_visibility |-> FALSE],
      initial_samples |-> 1, max_initial_history |-> 1,
      max_temporal_history |-> 0, max_spatial_history |-> 1]}

\* no Render has been built yet
NoConfig ==
    [convergence |-> [kind |-> "none"],
     initial_samples |-> 0, max_initial_history |-> 0,
     max_temporal_history |-> 0, max_spatial_history |-> 0]

\* the offsets of the neighbors, in the order update visits them
Offsets == <<-1, 1>>

----------------------------------------------------------------------------
(* A client of the library: one builder being built, a second builder made *)
(* from a reservoir, the reservoir last produced and a clamped copy of it. *)

VARIABLES
    builder,    \* the ReservoirBuilder operated on
    other,      \* a builder obtained by Reservoir::to_builder
    reservoir,  \* the Reservoir last produced (from_sample / finish*)
    prev,       \* the copy returned by Reservoir::with_max_history
    ret,        \* the flag returned by the last stream or merge
    last,       \* the last call: its name and arguments
    pc,         \* "run", or "panicked" once an assertion has failed
    steps,      \* number of calls made
    weights,    \* the weights of the samples streamed so far, in arrival order
    dist,       \* dist[i]: probability that sample i is the selected one
    selected,   \* the sample the caller holds as selected (0: none)
    restir,     \* Render::config.restir, NoConfig before Render is built
    pixels,     \* Render::pixels
    frame_index,    \* Render::frame_index
    backup,     \* update: the copy of the pixels taken when the frame begins
    cell_index, \* update: the pixel being rewritten
    phase,      \* update: the position in the body of the loop
    sample_index,   \* update: initial samples drawn for this pixel
    selected_dir,   \* update: direction of the sample selected so far
    selected_linfo, \* update: light of the sample selected so far
    unbiased_history,   \* update: history the pixel will be weighted with
    selected_cell,  \* update: the neighbor the selected sample came from
    offset_index,   \* update: position in the loop over [-1, 1]
    trace,      \* what the last step of update read and did
    frame_end,  \* the pixels as the previous frame left them
    usteps      \* number of steps of update made

lib_vars == <<builder, other, reservoir, prev, ret, last, pc, steps>>

law_vars == <<weights, dist, selected>>

local_vars == <<sample_index, selected_dir, selected_linfo,
                unbiased_history, selected_cell, offset_index>>

frame_vars == <<restir, pixels, frame_index, backup, cell_index, phase,
                sample_index, selected_dir, selected_linfo,
                unbiased_history, selected_cell, offset_index, trace,
                frame_end, usteps>>

vars == <<builder, other, reservoir, prev, ret, last, pc, steps,
          weights, dist, selected,
          restir, pixels, frame_index, backup, cell_index, phase,
          sample_index, selected_dir, selected_linfo,
          unbiased_history, selected_cell, offset_index, trace,
          frame_end, usteps>>

Init ==
    /\ builder = DefaultBuilder
    /\ other = DefaultBuilder
    /\ reservoir = DefaultReservoir
    /\ prev = DefaultReservoir
    /\ ret = FALSE
    /\ last = [op |-> "new"]
    /\ pc = "run"
    /\ steps = 0
    /\ weights = <<>>
    /\ dist = <<>>
    /\ selected = 0
    /\ restir = NoConfig
    /\ pixels = [c \in Cells |-> DefaultPixel]
    /\ frame_index = 0
    /\ backup = [c \in Cells |->
                    [reservoir |-> DefaultReservoir,
                     selected_sample |-> DefaultSampleInfo]]
    /\ cell_index = 0
    /\ phase = "new"
    /\ sample_index = 0
    /\ selected_dir = ZERO
    /\ selected_linfo = DefaultLightInfo
    /\ unbiased_history = 0
    /\ selected_cell = -1
    /\ offset_index = 1
    /\ trace = [op |-> "new", reads |-> {}]
    /\ frame_end = pixels
    /\ usteps = 0

Call == pc = "run" /\ steps < MaxSteps /\ steps' = steps + 1

Step == Call /\ UNCHANGED law_vars /\ UNCHANGED frame_vars

\* the reservoir a caller names: the one last produced or its clamped copy
Res(src) == IF src = "reservoir" THEN reservoir ELSE prev

Sources == {"reservoir", "prev"}

Stream(source_pdf, target_value, random) ==
    /\ Step
    /\ LET res == stream(builder, source_pdf, target_value, random)
       IN  builder' = res.self /\ ret' = res.ret
    /\ last' = [op |-> "stream", source_pdf |-> source_pdf,
                target_value |-> target_value, random |-> random]
    /\ UNCHANGED <<other, reservoir, prev, pc>>

AddEmptySample ==
    /\ Step
    /\ builder' = add_empty_sample(builder)
    /\ last' = [op |-> "add_empty_sample"]
    /\ UNCHANGED <<other, reservoir, prev, ret, pc>>

Merge(random) ==
    /\ Step
    /\ LET res == merge(builder, other, random)
       IN  builder' = res.self /\ ret' = res.ret
    /\ last' = [op |-> "merge", random |-> random]
    /\ UNCHANGED <<other, reservoir, prev, pc>>

MergeHistory(src) ==
    /\ Step
    /\ builder' = merge_history(builder, Res(src))
    /\ last' = [op |-> "merge_history", src |-> src]
    /\ UNCHANGED <<other, reservoir, prev, ret, pc>>

Invalidate ==
    /\ Step
    /\ builder' = invalidate(builder)
    /\ last' = [op |-> "invalidate"]
    /\ UNCHANGED <<other, reservoir, prev, ret, pc>>

ClampHistory(history) ==
    /\ Step
    /\ IF clamp_history_asserts(history)
       THEN builder' = clamp_history(builder, history) /\ pc' = "run"
       ELSE builder' = builder /\ pc' = "panicked"
    /\ last' = [op |-> "clamp_history", history |-> history]
    /\ UNCHANGED <<other, reservoir, prev, ret>>

\* let reservoir = builder.clone().finish()
Finish ==
    /\ Step
    /\ reservoir' = finish(builder)
    /\ last' = [op |-> "finish"]
    /\ UNCHANGED <<builder, other, prev, ret, pc>>

FinishWithHistory(history) ==
    /\ Step
    /\ reservoir' = finish_with_history(builder, history)
    /\ last' = [op |-> "finish_with_history",
                unbiased_history |-> history]
    /\ UNCHANGED <<builder, other, prev, ret, pc>>

FromSample(source_pdf) ==
    /\ Step
    /\ reservoir' = from_sample(source_pdf)
    /\ last' = [op |-> "from_sample", source_pdf |-> source_pdf]
    /\ UNCHANGED <<builder, other, prev, ret, pc>>

\* let prev = reservoir.with_max_history(max_history)
WithMaxHistory(max_history) ==
    /\ Step
    /\ prev' = with_max_history(reservoir, max_history)
    /\ last' = [op |-> "with_max_history", max_history |-> max_history]
    /\ UNCHANGED <<builder, other, reservoir, ret, pc>>

\* let other = prev.to_builder(selected_target_pdf)
ToBuilder(src, selected_target_pdf) ==
    /\ Step
    /\ other' = to_builder(Res(src), selected_target_pdf)
    /\ last' = [op |-> "to_builder", src |-> src,
                selected_target_pdf |-> selected_target_pdf]
    /\ UNCHANGED <<builder, reservoir, prev, ret, pc>>

Next ==
    \/ \E s \in SourcePdfs, t \in TargetValues, u \in Draws : Stream(s, t, u)
    \/ AddEmptySample
    \/ \E u \in Draws : Merge(u)
    \/ \E r \in Sources : MergeHistory(r)
    \/ Invalidate
    \/ \E h \in Limits : ClampHistory(h)
    \/ Finish
    \/ \E h \in Limits : FinishWithHistory(h)
    \/ \E s \in SourcePdfs : FromSample(s)
    \/ \E h \in Limits : WithMaxHistory(h)
    \/ \E r \in Sources, t \in TargetValues : ToBuilder(r, t)

Spec == Init /\ [][Next]_vars

\* a caller's reservoir.to_builder(selected_target_pdf).finish(): the
\* builder is a temporary, the reservoir it yields is kept in `last`
RoundTrip(src, selected_target_pdf) ==
    /\ Step
    /\ last' = [op |-> "round_trip", src |-> src,
                selected_target_pdf |-> selected_target_pdf,
                result |-> finish(to_builder(Res(src), selected_target_pdf))]
    /\ UNCHANGED <<builder, other, reservoir, prev, ret, pc>>

\* the calls that make reservoirs, and the round trip
TripNext ==
    \/ \E s \in SourcePdfs, t \in TargetValues, u \in Draws : Stream(s, t, u)
    \/ AddEmptySample
    \/ Finish
    \/ \E h \in Limits : FinishWithHistory(h)
    \/ \E s \in SourcePdfs : FromSample(s)
    \/ \E h \in Limits : WithMaxHistory(h)
    \/ \E r \in Sources, t \in TargetValues : RoundTrip(r, t)

SpecTrip == Init /\ [][TripNext]_vars

----------------------------------------------------------------------------
(* The selection law of a stream of samples.  The draws of successive      *)
(* calls are independent and uniform on [0,1), so the probability that a   *)
(* call accepts is the measure of the draws for which it returns true, and *)
(* an earlier sample stays selected with the complementary probability.    *)

\* The draws accepted by stream are those below weight / weight_sum = p/q
\* (all of them, or none, when that quotient is no number): a grid of q
\* cells [k/q, (k+1)/q) has each cell wholly inside or outside of that set.
resolution(self, source_pdf, target_value) ==
    LET weight == FDiv(target_value, source_pdf)
        theta == FDiv(weight, FAdd(self.weight_sum, weight))
    IN  IF theta[2] = 0 THEN 1 ELSE theta[2]

\* the cells of the grid whose draws make stream return true
accept_cells(self, source_pdf, target_value, q) ==
    {k \in 0..(q - 1) : stream(self, source_pdf, target_value, Rat(k, q)).ret}

\* Measure of { u \in [0,1) : stream(self, source_pdf, target_value, u)
\* returns true }
accept_measure(self, source_pdf, target_value) ==
    LET q == resolution(self, source_pdf, target_value)
    IN  Rat(Cardinality(accept_cells(self, source_pdf, target_value, q)), q)

\* one iteration of the caller's loop: builder.stream(..) with the caller
\* recording the sample when stream returns true
LawStream(source_pdf, target_value, random) ==
    /\ Call
    /\ Len(weights) < MaxLen
    /\ LET res == stream(builder, source_pdf, target_value, random)
       IN  builder' = res.self /\ ret' = res.ret
    /\ last' = [op |-> "stream", source_pdf |-> source_pdf,
                target_value |-> target_value, random |-> random]
    /\ weights' = Append(weights, FDiv(target_value, source_pdf))
    /\ \E a \in {accept_measure(builder, source_pdf, target_value)} :
           dist' = Append([i \in 1..Len(dist) |-> FMul(dist[i], FSub(One, a))], a)
    /\ selected' = IF ret' THEN Len(weights) + 1 ELSE selected
    /\ UNCHANGED <<other, reservoir, prev, pc>>
    /\ UNCHANGED frame_vars

LawNext ==
    \E s \in SourcePdfs, t \in TargetValues, u \in Draws : LawStream(s, t, u)

SpecLaw == Init /\ [][LawNext]_vars

----------------------------------------------------------------------------
(* Render::update of src/examples/restir.rs, one pixel at a time *)

is_precise == restir.convergence.kind = "Precise"

in_range(index) == ~(index < 0 \/ index >= World.surface_length)

\* faulty variant: the neighbor is read where it lives, not in the copy
backup_live(index) ==
    [reservoir |-> pixels[index].reservoir,
     selected_sample |-> pixels[index].selected_sample]

\* backup[index]: the (reservoir, selected sample) copied when the frame began
backup_at(index) == backup[index]

\* one step of update
Update ==
    /\ pc = "run"
    /\ usteps < MaxUpdateSteps
    /\ usteps' = usteps + 1
    /\ UNCHANGED <<other, reservoir, prev, ret, last, steps>>
    /\ UNCHANGED law_vars

\* the head of the loop body: the locals of one pixel
BeginCell ==
    /\ builder' = DefaultBuilder
    /\ selected_dir' = ZERO
    /\ selected_linfo' = DefaultLightInfo
    /\ sample_index' = 0
    /\ unbiased_history' = 0
    /\ selected_cell' = -1
    /\ offset_index' = 1
    /\ phase' = IF restir.initial_samples = 0 THEN "initial_done"
                ELSE "candidates"

\* main: the Render is built with its configuration and default pixels
Start(cfg) ==
    /\ phase = "new"
    /\ Update
    /\ restir' = cfg
    /\ phase' = "idle"
    /\ trace' = [op |-> "start", reads |-> {}]
    /\ UNCHANGED <<builder, pc, pixels, frame_index, backup, cell_index,
                   frame_end>>
    /\ UNCHANGED local_vars

\* update, up to the first pixel: count the frame, back up the pixels
BeginFrame ==
    /\ phase = "idle"
    /\ Update
    /\ frame_index' = frame_index + 1
    /\ backup' = [c \in Cells |->
                     [reservoir |-> pixels[c].reservoir,
                      selected_sample |-> pixels[c].selected_sample]]
    /\ cell_index' = 0
    /\ BeginCell
    /\ trace' = [op |-> "begin", reads |-> {}]
    /\ UNCHANGED <<pc, restir, pixels, frame_end>>

\* one iteration of the loop over the initial samples
Candidate(dir, random) ==
    /\ phase = "candidates"
    /\ Update
    /\ LET is_visible == IF is_precise
                         THEN check_visibility(World, surface_pos(cell_index), dir)
                         ELSE TRUE
       IN  IF is_visible
           THEN \E linfo \in {get_incoming_light(World, surface_pos(cell_index), dir)} :
                \E res \in {stream(builder, source_pdf_hemisphere,
                                   light_target_value(linfo), random)} :
                    /\ builder' = res.self
                    /\ selected_dir' = IF res.ret THEN dir ELSE selected_dir
                    /\ selected_linfo' = IF res.ret THEN linfo ELSE selected_linfo
                    /\ trace' = [op |-> "candidate", reads |-> {},
                                 queried |-> TRUE]
           ELSE /\ builder' = add_empty_sample(builder)
                /\ trace' = [op |-> "candidate", reads |-> {},
                             queried |-> FALSE]
                /\ UNCHANGED <<selected_dir, selected_linfo>>
    /\ sample_index' = sample_index + 1
    /\ phase' = IF sample_index + 1 < restir.initial_samples THEN "candidates"
                ELSE "initial_done"
    /\ UNCHANGED <<pc, restir, pixels, frame_index, backup, cell_index,
                   unbiased_history, selected_cell, offset_index, frame_end>>

\* after the initial samples: the visibility test of LeanAndMean with
\* initial_visibility, then builder.clamp_history(max_initial_history)
InitialDone ==
    /\ phase = "initial_done"
    /\ Update
    /\ selected_linfo' =
          IF /\ ~is_precise
             /\ restir.convergence.initial_visibility
             /\ ~check_visibility(World, surface_pos(cell_index), selected_dir)
          THEN DefaultLightInfo
          ELSE selected_linfo
    /\ IF clamp_history_asserts(restir.max_initial_history)
       THEN /\ builder' = clamp_history(builder, restir.max_initial_history)
            /\ pc' = pc
            /\ phase' = "temporal"
       ELSE /\ pc' = "panicked"
            /\ UNCHANGED <<builder, phase>>
    /\ trace' = [op |-> "initial_done", reads |-> {}]
    /\ UNCHANGED <<restir, pixels, frame_index, backup, cell_index,
                   sample_index, selected_dir, unbiased_history,
                   selected_cell, offset_index, frame_end>>

\* reuse of the previous frame's reservoir of this pixel, then
\* `let mut unbiased_history = builder.history()`
TemporalReuse(random) ==
    /\ phase = "temporal"
    /\ Update
    /\ IF restir.max_temporal_history # 0
       THEN \E entry \in {backup_at(cell_index)} :
            \E prev_ \in {with_max_history(entry.reservoir,
                                           restir.max_temporal_history)} :
              IF has_weight(prev_)
              THEN \E pixel_dir \in {pixels[cell_index].selected_sample.dir} :
                   \E linfo \in {get_incoming_light(World, surface_pos(cell_index),
                                                    pixel_dir)} :
                   \E res \in {merge(builder,
                                     to_builder(prev_, light_target_value(linfo)),
                                     random)} :
                      /\ builder' = res.self
                      /\ selected_dir' = IF res.ret THEN entry.selected_sample.dir
                                         ELSE selected_dir
                      /\ selected_linfo' = IF res.ret THEN linfo
                                           ELSE selected_linfo
                      /\ trace' = [op |-> "temporal", index |-> cell_index,
                                   reads |-> {[index |-> cell_index,
                                               entry |-> entry]},
                                   pixel_dir |-> pixel_dir,
                                   prev |-> prev_, queried |-> TRUE,
                                   merged |-> TRUE]
              ELSE /\ builder' = merge_history(builder, prev_)
                   /\ trace' = [op |-> "temporal", index |-> cell_index,
                                reads |-> {[index |-> cell_index,
                                            entry |-> entry]},
                                pixel_dir |-> entry.selected_sample.dir,
                                prev |-> prev_, queried |-> FALSE,
                                merged |-> FALSE]
                   /\ UNCHANGED <<selected_dir, selected_linfo>>
       ELSE /\ trace' = [op |-> "skipped", reads |-> {}]
            /\ UNCHANGED <<builder, selected_dir, selected_linfo>>
    /\ unbiased_history' = builder'.history
    /\ phase' = IF restir.max_spatial_history # 0 THEN "spatial" ELSE "finalize"
    /\ UNCHANGED <<pc, restir, pixels, frame_index, backup, cell_index,
                   sample_index, selected_cell, offset_index, frame_end>>

\* one iteration of the loop over the neighbors [-1, 1]
SpatialReuse(random) ==
    /\ phase = "spatial"
    /\ Update
    /\ LET offset == Offsets[offset_index]
           index == cell_index + offset
           surface == surface_pos(cell_index)
           other_pos == VAdd(surface, <<2 * offset, 0>>)
       IN  IF ~in_range(index)
           THEN /\ trace' = [op |-> "skipped", reads |-> {}]
                /\ UNCHANGED <<builder, selected_dir, selected_linfo,
                               selected_cell>>
           ELSE \E entry \in {backup_at(index)} :
                \E prev_ \in {with_max_history(entry.reservoir,
                                               restir.max_spatial_history)} :
                \E surface_dir \in {shift_map(entry.selected_sample,
                                              other_pos, surface)} :
                  IF /\ has_weight(prev_)
                     /\ (is_precise => check_visibility(World, surface, surface_dir))
                  THEN \E linfo \in {get_incoming_light(World, surface, surface_dir)} :
                       \E res \in {merge(builder,
                                         to_builder(prev_, light_target_value(linfo)),
                                         random)} :
                          /\ builder' = res.self
                          /\ selected_dir' = IF res.ret THEN surface_dir
                                             ELSE selected_dir
                          /\ selected_linfo' = IF res.ret THEN linfo
                                               ELSE selected_linfo
                          /\ selected_cell' = IF res.ret THEN index
                                              ELSE selected_cell
                          /\ trace' = [op |-> "spatial", index |-> index,
                                       reads |-> {[index |-> index,
                                                   entry |-> entry]},
                                       pixel_dir |-> surface_dir,
                                       prev |-> prev_, queried |-> TRUE,
                                       merged |-> TRUE]
                  ELSE /\ builder' = merge_history(builder, prev_)
                       /\ trace' = [op |-> "spatial", index |-> index,
                                    reads |-> {[index |-> index,
                                                entry |-> entry]},
                                    pixel_dir |-> surface_dir,
                                    prev |-> prev_, queried |-> FALSE,
                                    merged |-> FALSE]
                       /\ UNCHANGED <<selected_dir, selected_linfo,
                                      selected_cell>>
    /\ offset_index' = offset_index + 1
    /\ phase' = IF offset_index < Len(Offsets) THEN "spatial" ELSE "finalize"
    /\ UNCHANGED <<pc, restir, pixels, frame_index, backup, cell_index,
                   sample_index, unbiased_history, frame_end>>

\* the unbias pass: does the neighbor at cell_index + offset count?
covers_domain(offset) ==
    LET index == cell_index + offset
        surface == surface_pos(cell_index)
        other_pos == VAdd(surface, <<2 * offset, 0>>)
        selected_sample == [dir |-> selected_dir,
                            distance |-> selected_linfo.distance]
    IN  \/ index = selected_cell
        \/ check_visibility(World, other_pos,
                            shift_map(selected_sample, surface, other_pos))

\* faulty variant: every neighbor in range counts
unbias_share_all(offset) ==
    IF in_range(cell_index + offset)
    THEN with_max_history(backup_at(cell_index + offset).reservoir,
                          restir.max_spatial_history).history
    ELSE 0

\* the unbias pass: what the neighbor at cell_index + offset adds to
\* unbiased_history
unbias_share(offset) ==
    IF in_range(cell_index + offset) /\ covers_domain(offset)
    THEN with_max_history(backup_at(cell_index + offset).reservoir,
                          restir.max_spatial_history).history
    ELSE 0

\* the history update hands to finish_with_history
final_history ==
    IF restir.max_spatial_history # 0
    THEN IF is_precise /\ restir.convergence.unbias
         THEN unbiased_history + unbias_share(Offsets[1])
                               + unbias_share(Offsets[2])
         ELSE builder.history
    ELSE unbiased_history

\* the last visibility test of LeanAndMean
final_linfo ==
    IF /\ ~is_precise
       /\ FGt(light_target_value(selected_linfo), Zero)
       /\ ~check_visibility(World, surface_pos(cell_index), selected_dir)
    THEN DefaultLightInfo
    ELSE selected_linfo

\* the end of the loop body: the unbias pass, the last visibility test of
\* LeanAndMean, and the pixel is written; then the next pixel, if any
Finalize ==
    /\ phase = "finalize"
    /\ Update
    /\ \E history \in {final_history} :
       \E linfo \in {final_linfo} :
       \E res \in {finish_with_history(builder, history)} :
          /\ pixels' = [pixels EXCEPT ![cell_index] =
                           [reservoir |-> res,
                            selected_sample |->
                                [dir |-> selected_dir,
                                 distance |-> linfo.distance],
                            color |-> FMul(linfo.color, res.contribution_weight)]]
          /\ trace' = [op |-> "finalize", index |-> cell_index,
                       reads |-> IF restir.max_spatial_history # 0
                                    /\ is_precise /\ restir.convergence.unbias
                                 THEN {[index |-> cell_index + Offsets[o],
                                        entry |-> backup_at(cell_index + Offsets[o])] :
                                         o \in {o \in 1..Len(Offsets) :
                                                  in_range(cell_index + Offsets[o])}}
                                 ELSE {},
                       selected_cell |-> selected_cell,
                       unbiased_history |-> history]
    /\ IF cell_index + 1 < World.surface_length
       THEN /\ cell_index' = cell_index + 1
            /\ BeginCell
            /\ UNCHANGED frame_end
       ELSE /\ phase' = "idle"
            /\ frame_end' = pixels'
            /\ UNCHANGED <<builder, cell_index>>
            /\ UNCHANGED local_vars
    /\ UNCHANGED <<pc, restir, frame_index, backup>>

FrameNext ==
    \/ \E cfg \in RestirConfigs : Start(cfg)
    \/ BeginFrame
    \/ \E dir \in Dirs, u \in Draws : Candidate(dir, u)
    \/ InitialDone
    \/ \E u \in Draws : TemporalReuse(u)
    \/ \E u \in Draws : SpatialReuse(u)
    \/ Finalize

SpecFrame == Init /\ [][FrameNext]_vars

----------------------------------------------------------------------------
(* Properties *)

RECURSIVE FSum(_)
FSum(seq) == IF seq = <<>> THEN Zero ELSE FAdd(Head(seq), FSum(Tail(seq)))

\* a finite value that is not negative
NonNeg(a) == IsFinite(a) /\ a[1] >= 0

\* weight_sum / (h * selected_target_pdf) where that denominator is
\* positive, and 0 elsewhere
WeightOver(b, h) ==
    LET denom == FMul(FromU32(h), b.selected_target_pdf)
    IN  IF FGt(denom, Zero) THEN FDiv(b.weight_sum, denom) ELSE Zero

\* C1: stream adds 1 to history and target_value / source_pdf to weight_sum;
\* it returns true and selects target_value exactly when
\* random * (weight_sum after the update) < weight, and otherwise returns
\* false and keeps selected_target_pdf.
StreamContract ==
    [][last'.op = "stream" =>
        LET weight == FDiv(last'.target_value, last'.source_pdf)
            took == FLt(FMul(last'.random, builder'.weight_sum), weight)
        IN  /\ builder'.history = builder.history + 1
            /\ builder'.weight_sum = FAdd(builder.weight_sum, weight)
            /\ ret' = took
            /\ took => builder'.selected_target_pdf = last'.target_value
            /\ ~took => builder'.selected_target_pdf = builder.selected_target_pdf
      ]_vars

\* C1 witness: a sample of positive weight was streamed and rejected, the
\* earlier selection being kept
StreamRejected ==
    /\ last.op = "stream"
    /\ FGt(last.target_value, Zero)
    /\ ~ret
    /\ FGt(builder.selected_target_pdf, Zero)

\* C2: merge adds the other's weight_sum and history whatever the draw; it
\* returns true and takes the other's selected_target_pdf exactly when
\* random * (new weight_sum) < other.weight_sum, and otherwise returns false
\* and keeps its own; other is not modified; two one-sample builders of
\* weight_sum 1 merge into weight_sum 2, history 2.
MergeContract ==
    [][last'.op = "merge" =>
        LET took == FLt(FMul(last'.random, builder'.weight_sum), other.weight_sum)
        IN  /\ builder'.weight_sum = FAdd(builder.weight_sum, other.weight_sum)
            /\ builder'.history = builder.history + other.history
            /\ ret' = took
            /\ took => builder'.selected_target_pdf = other.selected_target_pdf
            /\ ~took => builder'.selected_target_pdf = builder.selected_target_pdf
            /\ other' = other
            /\ (/\ builder.history = 1 /\ builder.weight_sum = One
                /\ other.history = 1 /\ other.weight_sum = One)
               => builder'.weight_sum = <<2, 1>> /\ builder'.history = 2
      ]_vars

\* C2 witness: two one-sample builders of weight_sum 1 have been merged
MergedTwoSingles ==
    /\ last.op = "merge"
    /\ other.history = 1 /\ other.weight_sum = One
    /\ builder.history = 2 /\ builder.weight_sum = <<2, 1>>

\* C3: for every reachable builder and every history value h, finishing
\* gives contribution_weight = weight_sum / (h * selected_target_pdf) when
\* h * selected_target_pdf > 0 and exactly 0 otherwise, a finite value that is
\* not negative; so does the reservoir a finish call has just produced.
FinishNeverDivides ==
    /\ \A b \in {builder, other} : \A h \in Limits \cup {b.history} :
          /\ finish_with_history(b, h).contribution_weight = WeightOver(b, h)
          /\ NonNeg(finish_with_history(b, h).contribution_weight)
    /\ \A b \in {builder, other} :
          /\ finish(b).contribution_weight = WeightOver(b, b.history)
          /\ NonNeg(finish(b).contribution_weight)
    /\ last.op = "finish" =>
          /\ reservoir.contribution_weight = WeightOver(builder, builder.history)
          /\ NonNeg(reservoir.contribution_weight)
    /\ last.op = "finish_with_history" =>
          /\ reservoir.contribution_weight
                = WeightOver(builder, last.unbiased_history)
          /\ NonNeg(reservoir.contribution_weight)

\* C3 witness: a builder holding weight was finished with history 0 and the
\* zero denominator gave weight 0
FinishedOverZero ==
    /\ last.op = "finish_with_history"
    /\ last.unbiased_history = 0
    /\ FGt(builder.weight_sum, Zero)
    /\ reservoir.contribution_weight = Zero

\* C4: once the streamed weights have a positive sum, sample i is the
\* selected one with probability weights[i] / (sum of the weights), whatever
\* the order of arrival.
SelectionLaw ==
    FGt(FSum(weights), Zero) =>
        \A i \in 1..Len(weights) : dist[i] = FDiv(weights[i], FSum(weights))

\* C4 witness: three samples of positive, not all equal weights were
\* streamed and the second is the one held
LawThreeSamples ==
    /\ Len(weights) = 3
    /\ \A i \in 1..3 : FGt(weights[i], Zero)
    /\ weights[1] # weights[2]
    /\ selected = 2

\* C5: a sample of positive weight streamed into an empty builder is
\* accepted whatever the draw and leaves history 1, weight_sum
\* target_value / source_pdf, selected_target_pdf target_value; finishing
\* that builder gives history 1 and contribution_weight 1 / source_pdf.
FirstSampleContract ==
    [][(/\ last'.op = "stream"
        /\ builder = DefaultBuilder
        /\ FGt(FDiv(last'.target_value, last'.source_pdf), Zero))
       => /\ ret'
          /\ builder' = [history |-> 1,
                         weight_sum |-> FDiv(last'.target_value, last'.source_pdf),
                         selected_target_pdf |-> last'.target_value]
          /\ finish(builder') = [history |-> 1,
                                 contribution_weight |-> FDiv(One, last'.source_pdf)]
          /\ (last'.source_pdf = One /\ last'.target_value = <<2, 1>>)
             => /\ builder'.weight_sum = <<2, 1>>
                /\ builder'.selected_target_pdf = <<2, 1>>
                /\ finish(builder').contribution_weight = One
      ]_vars

\* C5 witness: the builder holding the one sample (source_pdf 1,
\* target_value 2) was finished
FirstSampleFinished ==
    /\ last.op = "finish"
    /\ builder = [history |-> 1, weight_sum |-> <<2, 1>>,
                  selected_target_pdf |-> <<2, 1>>]
    /\ reservoir = [history |-> 1, contribution_weight |-> One]

\* C6: clamp_history(limit), limit > 0, changes nothing when
\* limit >= history; when limit < history it sets history = limit and
\* weight_sum = old weight_sum * limit / old history, which keeps
\* weight_sum / history; selected_target_pdf is never changed.
ClampContract ==
    [][(last'.op = "clamp_history" /\ last'.history > 0) =>
        LET limit == last'.history
        IN  /\ limit >= builder.history => builder' = builder
            /\ limit < builder.history =>
                  /\ builder'.history = limit
                  /\ builder'.weight_sum
                        = FDiv(FMul(builder.weight_sum, FromU32(limit)),
                               FromU32(builder.history))
                  /\ FDiv(builder'.weight_sum, FromU32(builder'.history))
                        = FDiv(builder.weight_sum, FromU32(builder.history))
            /\ builder'.selected_target_pdf = builder.selected_target_pdf
      ]_vars

\* C6 witness: a builder of history 3 and weight_sum 1 was clamped to 2
ClampRescaled ==
    /\ last.op = "clamp_history"
    /\ last.history = 2
    /\ builder.history = 2
    /\ builder.weight_sum = <<2, 3>>

\* C7: invalidate zeroes selected_target_pdf and weight_sum and keeps
\* history; a reservoir finished from the builder directly afterwards, by
\* finish or by finish_with_history of any history, has contribution_weight
\* 0 and the builder's history.
InvalidateContract ==
    [][/\ last'.op = "invalidate" =>
            /\ builder'.selected_target_pdf = Zero
            /\ builder'.weight_sum = Zero
            /\ builder'.history = builder.history
            /\ finish(builder')
                  = [history |-> builder.history, contribution_weight |-> Zero]
            /\ \A h \in Limits :
                  finish_with_history(builder', h)
                     = [history |-> builder.history, contribution_weight |-> Zero]
       /\ (/\ last.op = "invalidate"
           /\ last'.op \in {"finish", "finish_with_history"})
          => reservoir' = [history |-> builder.history,
                           contribution_weight |-> Zero]
      ]_vars

\* C7 witness: a builder whose sample had been accepted was invalidated and
\* then finished
InvalidatedFinished ==
    /\ last.op \in {"finish", "finish_with_history"}
    /\ ret
    /\ builder.history > 0
    /\ builder.selected_target_pdf = Zero
    /\ reservoir = [history |-> builder.history, contribution_weight |-> Zero]

\* C8: add_empty_sample adds exactly 1 to history and merge_history adds
\* exactly the other's history; both leave weight_sum and
\* selected_target_pdf as they were.
HistoryOnlyContract ==
    [][/\ last'.op = "add_empty_sample" =>
            builder' = [builder EXCEPT !.history = builder.history + 1]
       /\ last'.op = "merge_history" =>
            builder' = [builder EXCEPT
                           !.history = builder.history + Res(last'.src).history]
      ]_vars

\* C8 witness: the history of a reservoir was merged into a builder that
\* holds weight and history of its own
HistoryMerged ==
    /\ last.op = "merge_history"
    /\ Res(last.src).history >= 1
    /\ builder.history > Res(last.src).history
    /\ FGt(builder.weight_sum, Zero)

\* C9: to_builder(p) returns a builder with the reservoir's history,
\* selected_target_pdf = p and weight_sum = contribution_weight * history * p,
\* and leaves the reservoir as it was.
ToBuilderContract ==
    [][last'.op = "to_builder" =>
        LET r == Res(last'.src)
            p == last'.selected_target_pdf
        IN  /\ other'.history = r.history
            /\ other'.selected_target_pdf = p
            /\ other'.weight_sum
                  = FMul(r.contribution_weight, FMul(FromU32(r.history), p))
            /\ reservoir' = reservoir
            /\ prev' = prev
      ]_vars

\* C9 witness: a reservoir of history 2 or more was turned into a builder
\* that holds weight
ToBuilderWeighted ==
    /\ last.op = "to_builder"
    /\ other.history >= 2
    /\ FGt(other.weight_sum, Zero)

\* C10: with_max_history(limit) returns a reservoir of history
\* min(history, limit) and of the same contribution_weight, for every limit
\* including 0; the original is unchanged and has_weight() answers the same
\* on both.
WithMaxHistoryContract ==
    [][last'.op = "with_max_history" =>
        LET limit == last'.max_history
        IN  /\ prev'.history
                  = IF reservoir.history <= limit THEN reservoir.history ELSE limit
            /\ prev'.contribution_weight = reservoir.contribution_weight
            /\ reservoir' = reservoir
            /\ has_weight(prev') = has_weight(reservoir)
      ]_vars

\* C10 witness: the copy of a weighted reservoir has a history lowered to
\* the limit
ClampedCopy ==
    /\ last.op = "with_max_history"
    /\ prev.history = last.max_history
    /\ prev.history < reservoir.history
    /\ has_weight(prev)


\* C11: finish_with_history uses the history it is given for the
\* denominator of the weight only: the reservoir stores the builder's own
\* history whatever that argument is, and finish is finish_with_history of
\* the builder's own history.
FinishStoresOwnHistory ==
    [][/\ last'.op = "finish_with_history" =>
            /\ reservoir'.history = builder.history
            /\ reservoir'.contribution_weight
                  = WeightOver(builder, last'.unbiased_history)
       /\ last'.op = "finish" =>
            reservoir' = finish_with_history(builder, builder.history)
      ]_vars

\* C11 witness: a builder was finished with a history other than its own
FinishedWithOtherHistory ==
    /\ last.op = "finish_with_history"
    /\ last.unbiased_history # builder.history
    /\ reservoir.history = builder.history
    /\ has_weight(reservoir)

\* C12 as stated: the reservoir produced by finalizing with a history bound
\* has history = min(builder history, that bound).
FinishClampsHistory ==
    last.op = "finish_with_history" =>
        reservoir.history = Min(builder.history, last.unbiased_history)

\* C12 amended: finalizing does not clamp: the reservoir produced by finish
\* or finish_with_history has the builder's history, also when the history
\* given to finish_with_history is smaller.
FinishKeepsHistory ==
    /\ last.op = "finish" => reservoir.history = builder.history
    /\ last.op = "finish_with_history" =>
          /\ reservoir.history = builder.history
          /\ last.unbiased_history < builder.history
                => reservoir.history > last.unbiased_history

\* C12 witness: a builder of history 2 was finished with history 1
FinishedAboveBound ==
    /\ last.op = "finish_with_history"
    /\ last.unbiased_history = 1
    /\ builder.history = 2
    /\ reservoir.history = 2

\* C13: history never decreases across stream, merge, add_empty_sample,
\* merge_history and invalidate; only clamp_history lowers it.
HistoryMonotone ==
    [][/\ last'.op \in {"stream", "merge", "add_empty_sample",
                        "merge_history", "invalidate"}
            => builder'.history >= builder.history
       /\ builder'.history < builder.history => last'.op = "clamp_history"
      ]_vars

\* C13 witness: a builder grown to history 2 by a stream and an empty
\* sample was lowered to 1 by clamp_history
HistoryLowered ==
    /\ last.op = "clamp_history"
    /\ last.history = 1
    /\ builder.history = 1
    /\ builder.weight_sum = <<1, 2>>

\* C14 as stated: clamp_history called on a builder whose history is 0
\* fails an assertion.
ZeroHistoryClampFails ==
    (last.op = "clamp_history" /\ builder.history = 0) => pc = "panicked"

\* C14 amended: the assertion of clamp_history is on the limit, not on the
\* builder: on a builder whose history is 0 the call fails exactly when the
\* limit is 0, and with a positive limit it returns with the builder
\* unchanged.
ZeroHistoryClampTolerated ==
    [][(last'.op = "clamp_history" /\ builder.history = 0) =>
          /\ pc' = "panicked" <=> last'.history = 0
          /\ builder' = builder
      ]_vars

\* C14 witness: a builder of history 0 went through clamp_history with a
\* positive limit
ZeroHistoryClamped ==
    /\ last.op = "clamp_history"
    /\ last.history > 0
    /\ builder.history = 0
    /\ pc = "run"

\* C18: stream(source_pdf, target_value) does what merging
\* from_sample(source_pdf).to_builder(target_value) does with the same draw:
\* same history, weight_sum, selected_target_pdf and returned flag.
StreamIsMerge ==
    [][last'.op = "stream" =>
        [self |-> builder', ret |-> ret']
           = stream_via_merge(builder, last'.source_pdf, last'.target_value,
                              last'.random)
      ]_vars

\* C18 witness: a sample of source PDF other than 1 was streamed into a
\* builder that held samples already, and accepted
StreamedSecondSample ==
    /\ last.op = "stream"
    /\ last.source_pdf # One
    /\ builder.history >= 2
    /\ FGt(builder.weight_sum, FDiv(last.target_value, last.source_pdf))
    /\ ret

\* C20: clamp_history(0) fails its assertion in every builder state, before
\* the builder is modified; clamp_history with a limit > 0 never fails.
ClampAssertion ==
    [][last'.op = "clamp_history" =>
          /\ last'.history = 0 => (pc' = "panicked" /\ builder' = builder)
          /\ last'.history > 0 => pc' = "run"
      ]_vars

\* C20 witness: clamp_history(0) failed on a builder that holds samples
ClampZeroPanicked ==
    /\ last.op = "clamp_history"
    /\ last.history = 0
    /\ pc = "panicked"
    /\ builder.history > 0

----------------------------------------------------------------------------
(* Properties of the frame update *)

\* what a frame leaves of a pixel for the next one to reuse
snapshot(index) ==
    [reservoir |-> frame_end[index].reservoir,
     selected_sample |-> frame_end[index].selected_sample]

\* C15: every reservoir and selected sample that the temporal phase, the
\* spatial phase and the unbias pass read is the value the previous frame
\* left, also for a neighbor that this frame has already rewritten (so the
\* new state of a pixel is a function of the previous frame's pixels, its
\* own samples and draws, whatever the order the pixels are visited in).
SnapshotDiscipline ==
    [][/\ \A r \in trace'.reads : r.entry = snapshot(r.index)
       /\ (trace'.op = "temporal" /\ trace'.queried)
             => trace'.pixel_dir = snapshot(trace'.index).selected_sample.dir
      ]_vars

\* C15 witness: the spatial phase merged the sample of the left neighbor
\* after this frame had rewritten that neighbor with another reservoir and
\* another sample
ReadRewrittenNeighbor ==
    /\ trace.op = "spatial"
    /\ trace.merged
    /\ trace.index < cell_index
    /\ frame_index >= 2
    /\ pixels[trace.index].reservoir # backup[trace.index].reservoir
    /\ pixels[trace.index].selected_sample
          # backup[trace.index].selected_sample

\* is update running Precise with unbias and spatial reuse?
unbiasing ==
    /\ is_precise
    /\ restir.convergence.unbias
    /\ restir.max_spatial_history # 0

\* the history the previous frame left at a neighbor, clamped for the
\* spatial phase
clamped_neighbor(index) ==
    Min(frame_end[index].reservoir.history, restir.max_spatial_history)

\* the neighbor at cell_index + offset supplied the selected sample, or
\* sees the selected sample once shifted to its own position
counted(offset) ==
    /\ in_range(cell_index + offset)
    /\ \/ cell_index + offset = selected_cell
       \/ check_visibility(World, surface_pos(cell_index + offset),
             shift_map([dir |-> selected_dir,
                        distance |-> selected_linfo.distance],
                       surface_pos(cell_index),
                       surface_pos(cell_index + offset)))

\* C16: in Precise with unbias and spatial reuse, the denominator history
\* of finalize is the builder's history after the temporal phase plus the
\* clamped previous-frame histories of exactly the in-range neighbors that
\* supplied the selected sample or see it shifted to their position; it
\* never exceeds the builder's merged history.
UnbiasedDenominator ==
    [][/\ (unbiasing /\ phase = "temporal")
             => unbiased_history' = builder'.history
       /\ (unbiasing /\ phase = "spatial")
             => unbiased_history' = unbiased_history
       /\ (unbiasing /\ phase = "finalize") =>
             LET left == IF counted(-1) THEN clamped_neighbor(cell_index - 1)
                         ELSE 0
                 right == IF counted(1) THEN clamped_neighbor(cell_index + 1)
                          ELSE 0
             IN  /\ trace'.unbiased_history = unbiased_history + left + right
                 /\ trace'.unbiased_history <= builder.history
                 /\ pixels'[cell_index].reservoir
                       = finish_with_history(builder, trace'.unbiased_history)
      ]_vars

\* C16 witness: the middle pixel was finalized with one neighbor counted
\* and the other, whose history is not 0, left out
OneNeighborCounted ==
    /\ unbiasing
    /\ trace.op = "finalize"
    /\ trace.index = 1
    /\ has_weight(pixels[1].reservoir)
    /\ backup[0].reservoir.history > 0
    /\ backup[2].reservoir.history > 0
    /\ trace.unbiased_history < pixels[1].reservoir.history
    /\ trace.unbiased_history
          > pixels[1].reservoir.history
              - Min(backup[0].reservoir.history, restir.max_spatial_history)
              - Min(backup[2].reservoir.history, restir.max_spatial_history)

\* C17: under either policy, when the sample finally selected for a pixel
\* is not visible from the pixel, the selection is invalidated before
\* finalize, so the reservoir stored for the pixel has weight 0.
InvisibleSelectionStoredWeightless ==
    (trace.op = "finalize"
       /\ ~check_visibility(World, surface_pos(trace.index),
                            pixels[trace.index].selected_sample.dir))
      => ~has_weight(pixels[trace.index].reservoir)

\* the bound of the phase a step of reuse belongs to
phase_bound(op) ==
    IF op = "temporal" THEN restir.max_temporal_history
    ELSE restir.max_spatial_history

\* the previous frame's sample of a pixel, shifted to the current pixel
shifted_here(index) ==
    shift_map(snapshot(index).selected_sample, surface_pos(index),
              surface_pos(cell_index))

\* C19: in the temporal and spatial phases a previous reservoir of weight 0
\* adds its history, clamped to the bound of the phase, and nothing else:
\* weight_sum, selected_target_pdf and the selected sample stay, and no
\* light is queried.  In Precise the same holds for a weighted neighbor
\* whose shifted sample is not visible from the current pixel.
HistoryOnlyReuse ==
    [][(/\ trace'.op \in {"temporal", "spatial"}
        /\ \/ ~has_weight(snapshot(trace'.index).reservoir)
           \/ /\ trace'.op = "spatial"
              /\ is_precise
              /\ ~check_visibility(World, surface_pos(cell_index),
                                   shifted_here(trace'.index)))
        => /\ builder'.history
                = builder.history
                    + Min(snapshot(trace'.index).reservoir.history,
                          phase_bound(trace'.op))
           /\ builder'.weight_sum = builder.weight_sum
           /\ builder'.selected_target_pdf = builder.selected_target_pdf
           /\ selected_dir' = selected_dir
           /\ selected_linfo' = selected_linfo
           /\ ~trace'.queried
      ]_vars

\* C19 witness: in Precise a pixel whose own previous reservoir had no
\* weight took only the history of a weighted neighbor, both histories
\* being above the bounds of their phases
WeightedNeighborHistoryOnly ==
    /\ is_precise
    /\ restir.max_temporal_history # 0
    /\ trace.op = "spatial"
    /\ has_weight(backup[trace.index].reservoir)
    /\ backup[trace.index].reservoir.history > 0
    /\ ~trace.queried
    /\ backup[trace.index].reservoir.history > restir.max_spatial_history
    /\ ~has_weight(backup[cell_index].reservoir)
    /\ backup[cell_index].reservoir.history > restir.max_temporal_history

\* the neighbors a pixel has on the surface: 1 at either end, else 2
neighbors(index) ==
    Cardinality({o \in {-1, 1} : in_range(index + o)})

\* max_initial_history + max_temporal_history + max_spatial_history for
\* every neighbor
history_bound(index) ==
    restir.max_initial_history + restir.max_temporal_history
        + neighbors(index) * restir.max_spatial_history

\* C21: after any number of frame updates the history stored for a pixel is
\* at most max_initial_history + max_temporal_history
\* + 2 * max_spatial_history, with one max_spatial_history term only for a
\* pixel at either end of the surface.
StoredHistoryBounded ==
    \A c \in Cells : pixels[c].reservoir.history <= history_bound(c)

\* C21 witness: the middle pixel stores exactly the bound, built in a second
\* frame from previous histories that the phases had to clamp
StoredHistoryAtBound ==
    /\ frame_index >= 2
    /\ trace.op = "finalize"
    /\ trace.index = 1
    /\ pixels[1].reservoir.history = history_bound(1)
    /\ backup[0].reservoir.history > restir.max_spatial_history
    /\ backup[1].reservoir.history > restir.max_temporal_history
    /\ backup[2].reservoir.history > restir.max_spatial_history

\* weight_sum >= 0, and a positive weight_sum comes with a positive
\* selected_target_pdf and a positive history
sound_builder(b) ==
    /\ NonNeg(b.weight_sum)
    /\ FGt(b.weight_sum, Zero)
          => (FGt(b.selected_target_pdf, Zero) /\ b.history > 0)

\* C22: every builder reached from the empty one by stream,
\* add_empty_sample, merge, merge_history, clamp_history (limit > 0) and
\* invalidate, with target values >= 0 and source PDFs > 0, has
\* weight_sum >= 0, and weight_sum > 0 only with selected_target_pdf > 0 and
\* history > 0; so finish() never drops a positive weight_sum, and a sample
\* or a merged builder of weight 0 is never selected.
BuilderSound ==
    /\ sound_builder(builder)
    /\ sound_builder(other)
    /\ (last.op = "finish" /\ FGt(builder.weight_sum, Zero))
          => has_weight(reservoir)
    /\ (last.op = "stream"
          /\ FDiv(last.target_value, last.source_pdf) = Zero) => ~ret
    /\ (last.op = "merge" /\ other.weight_sum = Zero) => ~ret

\* C22 witness: a builder of weight 0 that carries history was merged into
\* a builder of positive weight and was not selected
MergedWeightless ==
    /\ last.op = "merge"
    /\ other.weight_sum = Zero
    /\ other.history > 0
    /\ ~ret
    /\ FGt(builder.weight_sum, Zero)
    /\ builder.history >= 2

\* C23: for a reservoir with history > 0 and p > 0,
\* reservoir.to_builder(p).finish() has the history and the
\* contribution_weight of the reservoir; with history = 0 or p = 0 it has
\* contribution_weight 0.
RoundTripContract ==
    last.op = "round_trip" =>
        LET source == Res(last.src)
        IN  /\ last.result.history = source.history
            /\ IF source.history > 0 /\ FGt(last.selected_target_pdf, Zero)
               THEN last.result.contribution_weight
                       = source.contribution_weight
               ELSE last.result.contribution_weight = Zero

\* C23 witness: a weighted reservoir of history 2 or more went through the
\* round trip with a positive p and came back as it was
RoundTripWeighted ==
    /\ last.op = "round_trip"
    /\ Res(last.src).history >= 2
    /\ has_weight(Res(last.src))
    /\ Res(last.src).contribution_weight # One
    /\ FGt(last.selected_target_pdf, One)
    /\ last.result = Res(last.src)

\* C24: in Precise, with the scene fixed, after any number of frame
\* updates every stored reservoir that has weight is paired with a selected
\* direction that is visible from its own pixel.
PreciseStoresVisible ==
    restir.convergence.kind = "Precise" =>
        \A c \in Cells :
            has_weight(pixels[c].reservoir)
               => check_visibility(World, surface_pos(c),
                                   pixels[c].selected_sample.dir)

\* C24 witness: in a second frame of Precise the middle pixel stored, with
\* weight, a sample of the sun that it took from its left neighbor, while
\* its own previous sample was another one
StoredNeighborSample ==
    /\ restir.convergence.kind = "Precise"
    /\ frame_index >= 2
    /\ trace.op = "finalize"
    /\ trace.index = 1
    /\ trace.selected_cell = 0
    /\ has_weight(pixels[1].reservoir)
    /\ pixels[1].selected_sample.distance # None
    /\ pixels[1].selected_sample.dir # backup[1].selected_sample.dir
    /\ has_weight(backup[1].reservoir)

=============================================================================
